---- MODULE Spec2Model ----
(***************************************************************************)
(* CaffeineTake: the mode / execution-state coordination of CaffeineApp    *)
(* (Src/CaffeineTake/CaffeineApp.cpp).                                     *)
(*                                                                         *)
(* The application object keeps mCaffeineMode, mCaffeineState,             *)
(* mKeepDisplayOn and mSessionState; every handler runs to completion on   *)
(* the window thread.  One action below is one handler.  The handlers are  *)
(* written as functions on a record `a` holding the fields the handler     *)
(* reads and writes, composed in the order of the statements of the code.  *)
(*                                                                         *)
(* The mode objects (mDisabledMode, mEnabledMode, mAutoMode, mTimerMode)   *)
(* are declared elsewhere; their Start/Stop are modelled from the design   *)
(* description (section 4.2).  A report made by a mode from inside Start   *)
(* runs on the window thread and is dispatched at once (SendCustomMessage  *)
(* to the own window); a report made by a periodic tick or a countdown is  *)
(* a message in flight until OnCustomMessage handles it.                   *)
(***************************************************************************)
EXTENDS Integers, Sequences, FiniteSets, TLC

(* ------------------------------ bounds -------------------------------- *)

\* Largest number of policy reports in flight to the window at one time.
MaxInFlight == 1

\* Cap of the counters of irregular Start/Stop calls.
MaxIrregular == 2

(* ------------------------------ types --------------------------------- *)

Disabled == "Disabled"
Enabled  == "Enabled"
Auto     == "Auto"
Timer    == "Timer"

CaffeineMode == {Disabled, Enabled, Auto, Timer}

Active   == "Active"
Inactive == "Inactive"

CaffeineState == {Active, Inactive}

Locked   == "Locked"
Unlocked == "Unlocked"

SessionState == {Locked, Unlocked}

\* Settings::Standard / Auto / Timer, the two fields UpdateExecutionState reads.
ModeSettings == [KeepDisplayOn : BOOLEAN, DisableOnLockScreen : BOOLEAN]

Settings == [Standard : ModeSettings, Auto : ModeSettings, Timer : ModeSettings]

VARIABLES
    phase,           \* "constructed", "running" (Init returned), "destroyed"
    mInitialized,
    mCaffeineMode,
    mCaffeineState,
    mKeepDisplayOn,
    mSessionState,
    mSettings,
    started,         \* per mode object: Start was called and Stop was not
    autoVerdict,     \* AutoMode: verdict of the previous inspection
    timerArmed,      \* TimerMode: the countdown is pending
    inflight,        \* WM_CAFFEINE_TAKE_UPDATE_EXECUTION_STATE messages queued
    os,              \* flags of the last SetThreadExecutionState that succeeded
    doubleStarts,    \* per mode object: Start calls received while started
    strayStops,      \* per mode object: Stop calls received while not started
    mismatched,      \* a mode object other than mCaffeineMode's was seen started
    trace            \* what the handler that ran last did, in order

vars == <<phase, mInitialized, mCaffeineMode, mCaffeineState, mKeepDisplayOn, mSessionState,
          mSettings, started, autoVerdict, timerArmed, inflight, os,
          doubleStarts, strayStops, mismatched, trace>>

(* ------------------- the record a handler works on -------------------- *)

App ==
    [mode |-> mCaffeineMode, state |-> mCaffeineState, kdo |-> mKeepDisplayOn,
     session |-> mSessionState, settings |-> mSettings, started |-> started,
     autoVerdict |-> autoVerdict, timerArmed |-> timerArmed, os |-> os,
     doubleStarts |-> doubleStarts, strayStops |-> strayStops,
     mismatched |-> mismatched, trace |-> trace]

Commit(a) ==
    /\ mCaffeineMode' = a.mode
    /\ mCaffeineState' = a.state
    /\ mKeepDisplayOn' = a.kdo
    /\ mSessionState' = a.session
    /\ mSettings' = a.settings
    /\ started' = a.started
    /\ autoVerdict' = a.autoVerdict
    /\ timerArmed' = a.timerArmed
    /\ os' = a.os
    /\ doubleStarts' = a.doubleStarts
    /\ strayStops' = a.strayStops
    /\ mismatched' = a.mismatched
    /\ trace' = a.trace

\* One entry of the trace: what happened (ev) and its arguments.
Emit(a, ev, active, display, ok) ==
    [a EXCEPT !.trace = Append(@,
        [ev |-> ev, active |-> active, display |-> display, ok |-> ok])]

HasEvent(tr, ev) ==
    \E i \in 1..Len(tr) : tr[i].ev = ev

\* A handler begins: the trace starts over with the handler's name.
Begin(a, name) ==
    Emit([a EXCEPT !.trace = <<>>], name, FALSE, FALSE, TRUE)

\* The mode objects started are looked at: only mCaffeineMode's may be.
Observe(a) ==
    [a EXCEPT !.mismatched =
        @ \/ \E m \in CaffeineMode : a.started[m] /\ m # a.mode]

(* ----------------------- CaffeineApp, the code ------------------------ *)

\* SetThreadExecutionState(flags): the OS either takes the flags or fails.
SetThreadExecutionState(a, sys, disp, ok) ==
    Emit(IF ok THEN [a EXCEPT !.os = [made |-> TRUE, sys |-> sys, disp |-> disp]]
               ELSE a,
         "os", sys, disp, ok)

\* The switch at the head of UpdateExecutionState: the settings of the mode.
ModeKeepDisplayOn(mode, settings) ==
    CASE mode = Disabled -> FALSE
      [] mode = Enabled  -> settings.Standard.KeepDisplayOn
      [] mode = Auto     -> settings.Auto.KeepDisplayOn
      [] mode = Timer    -> settings.Timer.KeepDisplayOn

ModeDisableOnLock(mode, settings) ==
    CASE mode = Disabled -> FALSE
      [] mode = Enabled  -> settings.Standard.DisableOnLockScreen
      [] mode = Auto     -> settings.Auto.DisableOnLockScreen
      [] mode = Timer    -> settings.Timer.DisableOnLockScreen

\* The lock-screen adjustment lost: the session state is not looked at.
LocalKeepDisplayOnIgnoresLock(mode, session, settings) ==
    ModeKeepDisplayOn(mode, settings)

\* The lock-screen adjustment without DisableOnLockScreen: a locked session
\* always suppresses display-on.
LocalKeepDisplayOnAlwaysOffLocked(mode, session, settings) ==
    IF mode # Disabled /\ session = Locked
    THEN FALSE
    ELSE ModeKeepDisplayOn(mode, settings)

\* The local keepDisplayOn after the lock-screen adjustment.
LocalKeepDisplayOn(mode, session, settings) ==
    IF /\ mode # Disabled
       /\ session = Locked
       /\ ModeKeepDisplayOn(mode, settings)
    THEN ~ModeDisableOnLock(mode, settings)
    ELSE ModeKeepDisplayOn(mode, settings)

\* The early returns of UpdateExecutionState lost: the OS is always called.
NoNeedToUpdateNever(a, state, keepDisplayOn) ==
    FALSE

\* The early return of the Disabled branch lost.
NoNeedToUpdateUnlessDisabled(a, state, keepDisplayOn) ==
    a.mode # Disabled /\ a.state = state /\ a.kdo = keepDisplayOn

\* The two early returns of UpdateExecutionState.
NoNeedToUpdate(a, state, keepDisplayOn) ==
    IF a.mode # Disabled
    THEN a.state = state /\ a.kdo = keepDisplayOn
    ELSE a.state = state

\* UpdateIcon(); UpdateTip();
UpdateIconAndTip(a) ==
    Emit(a, "ui", FALSE, FALSE, TRUE)

\* ES_DISPLAY_REQUIRED added whenever keepDisplayOn is set, Active or not.
AssertExecutionStateDisplayUnguarded(a, state, keepDisplayOn, ok) ==
    LET b == [a EXCEPT !.state = state, !.kdo = keepDisplayOn]
        c == SetThreadExecutionState(b, state = Active, keepDisplayOn, ok)
    IN  IF ok THEN UpdateIconAndTip(c) ELSE c

\* The fields are written, then the OS is called; a failed call returns.
AssertExecutionState(a, state, keepDisplayOn, ok) ==
    LET b == [a EXCEPT !.state = state, !.kdo = keepDisplayOn]
        c == SetThreadExecutionState(b, state = Active,
                                     state = Active /\ keepDisplayOn, ok)
    IN  IF ok THEN UpdateIconAndTip(c) ELSE c

UpdateExecutionState(a, state, ok) ==
    LET keepDisplayOn == LocalKeepDisplayOn(a.mode, a.session, a.settings)
        b == Emit(a, "reconcile", state = Active, keepDisplayOn, TRUE)
    IN  IF NoNeedToUpdate(a, state, keepDisplayOn)
        THEN b
        ELSE AssertExecutionState(b, state, keepDisplayOn, ok)

RefreshExecutionState(a, ok) ==
    UpdateExecutionState(a, a.state, ok)

\* OnCustomMessage(WM_CAFFEINE_TAKE_UPDATE_EXECUTION_STATE, wParam)
CustomMessage(a, wParam, ok) ==
    IF wParam THEN UpdateExecutionState(a, Active, ok)
              ELSE UpdateExecutionState(a, Inactive, ok)

\* EnableCaffeine / DisableCaffeine called on the window thread.
EnableCaffeine(a, ok) ==
    CustomMessage(a, TRUE, ok)

DisableCaffeine(a, ok) ==
    CustomMessage(a, FALSE, ok)

(* ------------- the mode objects (design description 4.2) -------------- *)

Bump(n) ==
    IF n < MaxIrregular THEN n + 1 ELSE n

\* Start reaches a mode object.
NoteStart(a, m) ==
    LET b == [a EXCEPT !.doubleStarts[m] = IF a.started[m] THEN Bump(@) ELSE @,
                       !.started[m] = TRUE]
    IN  Observe(Emit(b, "start", FALSE, FALSE, TRUE))

\* Stop reaches a mode object.
NoteStop(a, m) ==
    LET b == [a EXCEPT !.strayStops[m] = IF a.started[m] THEN @ ELSE Bump(@),
                       !.started[m] = FALSE]
    IN  Observe(Emit(b, "stop", FALSE, FALSE, TRUE))

\* Disabled: Start reports inactive once; Stop does nothing.
DisabledModeStart(a, ok) ==
    DisableCaffeine(NoteStart(a, Disabled), ok)

DisabledModeStop(a) ==
    NoteStop(a, Disabled)

\* Enabled: Start reports active once; Stop does nothing.
EnabledModeStart(a, ok) ==
    EnableCaffeine(NoteStart(a, Enabled), ok)

EnabledModeStop(a) ==
    NoteStop(a, Enabled)

\* Auto: Start begins the periodic inspection and reports nothing itself;
\* Stop cancels the inspection.
AutoModeStart(a) ==
    [NoteStart(a, Auto) EXCEPT !.autoVerdict = FALSE]

AutoModeStop(a) ==
    [NoteStop(a, Auto) EXCEPT !.autoVerdict = FALSE]

\* Timer: Start reports active and arms the countdown; Stop cancels it.
TimerModeStart(a, ok) ==
    EnableCaffeine([NoteStart(a, Timer) EXCEPT !.timerArmed = TRUE], ok)

TimerModeStop(a) ==
    [NoteStop(a, Timer) EXCEPT !.timerArmed = FALSE]

(* ------------------ CaffeineApp, switching the mode ------------------- *)

StartMode(a, ok) ==
    CASE a.mode = Disabled -> DisabledModeStart(a, ok)
      [] a.mode = Enabled  -> EnabledModeStart(a, ok)
      [] a.mode = Auto     -> AutoModeStart(a)
      [] a.mode = Timer    -> TimerModeStart(a, ok)

\* StopMode with the Enabled case lost: mEnabledMode.Stop is never called.
StopModeSkipsEnabled(a) ==
    CASE a.mode = Disabled -> DisabledModeStop(a)
      [] a.mode = Enabled  -> a
      [] a.mode = Auto     -> AutoModeStop(a)
      [] a.mode = Timer    -> TimerModeStop(a)

StopMode(a) ==
    CASE a.mode = Disabled -> DisabledModeStop(a)
      [] a.mode = Enabled  -> EnabledModeStop(a)
      [] a.mode = Auto     -> AutoModeStop(a)
      [] a.mode = Timer    -> TimerModeStop(a)

\* mCaffeineMode = mode;
AssignMode(a, mode) ==
    Observe(Emit([a EXCEPT !.mode = mode], "mode", FALSE, FALSE, TRUE))

\* SetCaffeineMode with mCaffeineMode assigned before StopMode is called.
SetCaffeineModeAssignsFirst(a, mode, ok) ==
    LET b == Emit(a, "SetCaffeineMode", FALSE, FALSE, TRUE)
    IN  UpdateIconAndTip(StartMode(StopMode(AssignMode(b, mode)), ok))

SetCaffeineMode(a, mode, ok) ==
    LET b == Emit(a, "SetCaffeineMode", FALSE, FALSE, TRUE)
    IN  UpdateIconAndTip(StartMode(AssignMode(StopMode(b), mode), ok))

\* The switch of ToggleCaffeineMode with the Auto case leaving the default.
ToggleTargetSkipsTimer(mode) ==
    CASE mode = Disabled -> Enabled
      [] mode = Enabled  -> Auto
      [] mode = Auto     -> Disabled
      [] mode = Timer    -> Disabled

\* The switch of ToggleCaffeineMode.
ToggleTarget(mode) ==
    CASE mode = Disabled -> Enabled
      [] mode = Enabled  -> Auto
      [] mode = Auto     -> Timer
      [] mode = Timer    -> Disabled

ToggleCaffeineMode(a, ok) ==
    SetCaffeineMode(Emit(a, "ToggleCaffeineMode", FALSE, FALSE, TRUE),
                    ToggleTarget(a.mode), ok)

(* ------------------------------ actions ------------------------------- *)

NoOs == [made |-> FALSE, sys |-> FALSE, disp |-> FALSE]

\* Settings(), the default-constructed object; Init replaces it.
DefaultSettings ==
    [Standard |-> [KeepDisplayOn |-> FALSE, DisableOnLockScreen |-> FALSE],
     Auto     |-> [KeepDisplayOn |-> FALSE, DisableOnLockScreen |-> FALSE],
     Timer    |-> [KeepDisplayOn |-> FALSE, DisableOnLockScreen |-> FALSE]]

\* A handler has run with result a; ok is the outcome of the OS call it made,
\* and a handler that made none has one outcome only.
Handled(a, ok) ==
    /\ ok \/ HasEvent(a.trace, "os")
    /\ Commit(a)

\* The constructor: Unlocked, Inactive, Disabled, mKeepDisplayOn false, a
\* default-constructed Settings object, no mode object started.
Init ==
    /\ phase = "constructed"
    /\ mInitialized = FALSE
    /\ mCaffeineMode = Disabled
    /\ mCaffeineState = Inactive
    /\ mKeepDisplayOn = FALSE
    /\ mSessionState = Unlocked
    /\ mSettings = DefaultSettings
    /\ started = [m \in CaffeineMode |-> FALSE]
    /\ autoVerdict = FALSE
    /\ timerArmed = FALSE
    /\ inflight = <<>>
    /\ os = NoOs
    /\ doubleStarts = [m \in CaffeineMode |-> 0]
    /\ strayStops = [m \in CaffeineMode |-> 0]
    /\ mismatched = FALSE
    /\ trace = <<>>

\* CaffeineApp::Init: the settings are loaded, the session state is queried,
\* SetCaffeineMode(mCaffeineMode) is called.
AppInit ==
    /\ phase = "constructed"
    /\ \E settings \in Settings, session \in SessionState, ok \in BOOLEAN :
          Handled(SetCaffeineMode(
                      Begin([App EXCEPT !.settings = settings,
                                        !.session = session], "Init"),
                      mCaffeineMode, ok),
                  ok)
    /\ phase' = "running"
    /\ mInitialized' = TRUE
    /\ UNCHANGED inflight

OnClick ==
    /\ phase = "running"
    /\ \E ok \in BOOLEAN :
          Handled(ToggleCaffeineMode(Begin(App, "OnClick"), ok), ok)
    /\ UNCHANGED <<phase, mInitialized, inflight>>

MenuItems ==
    {"IDM_TOGGLE_CAFFEINE", "IDM_DISABLE_CAFFEINE", "IDM_ENABLE_CAFFEINE",
     "IDM_ENABLE_AUTO"}

ContextMenuSelect(a, item, ok) ==
    CASE item = "IDM_TOGGLE_CAFFEINE"  -> ToggleCaffeineMode(a, ok)
      [] item = "IDM_DISABLE_CAFFEINE" -> SetCaffeineMode(a, Disabled, ok)
      [] item = "IDM_ENABLE_CAFFEINE"  -> SetCaffeineMode(a, Enabled, ok)
      [] item = "IDM_ENABLE_AUTO"      -> SetCaffeineMode(a, Auto, ok)

OnContextMenuSelect ==
    /\ phase = "running"
    /\ \E item \in MenuItems, ok \in BOOLEAN :
          Handled(ContextMenuSelect(Begin(App, "OnContextMenuSelect"), item, ok),
                  ok)
    /\ UNCHANGED <<phase, mInitialized, inflight>>

\* The dialog accepted without the refresh of the execution state.
SettingsAcceptedWithoutRefresh(a, standard, auto, ok) ==
    [a EXCEPT !.settings.Standard = standard, !.settings.Auto = auto]

\* IDM_SETTINGS, the dialog accepted: Standard and Auto are replaced, the
\* execution state is refreshed.
SettingsAccepted(a, standard, auto, ok) ==
    RefreshExecutionState(
        [a EXCEPT !.settings.Standard = standard, !.settings.Auto = auto], ok)

ShowSettingsDialog ==
    /\ phase = "running"
    /\ \E standard \in ModeSettings, auto \in ModeSettings :
          \* one page of the dialog is edited in a visit
          /\ standard = mSettings.Standard \/ auto = mSettings.Auto
          /\ \E ok \in BOOLEAN :
                Handled(SettingsAccepted(Begin(App, "ShowSettingsDialog"),
                                         standard, auto, ok),
                        ok)
    /\ UNCHANGED <<phase, mInitialized, inflight>>

\* The session event handled by entering the current mode again.
SessionChangeRestartsMode(a, session, ok) ==
    SetCaffeineMode([a EXCEPT !.session = session], a.mode, ok)

\* The session event refreshes the execution state on lock only.
SessionChangeRefreshesOnLockOnly(a, session, ok) ==
    IF session = Locked
    THEN RefreshExecutionState([a EXCEPT !.session = session], ok)
    ELSE [a EXCEPT !.session = session]

\* WM_WTSSESSION_CHANGE with WTS_SESSION_LOCK or WTS_SESSION_UNLOCK.
SessionChange(a, session, ok) ==
    RefreshExecutionState([a EXCEPT !.session = session], ok)

OnSystemMessage ==
    /\ phase = "running"
    /\ \E session \in SessionState, ok \in BOOLEAN :
          Handled(SessionChange(
                      Begin(App, IF session = Locked THEN "WTS_SESSION_LOCK"
                                                     ELSE "WTS_SESSION_UNLOCK"),
                      session, ok),
                  ok)
    /\ UNCHANGED <<phase, mInitialized, inflight>>

\* A queued WM_CAFFEINE_TAKE_UPDATE_EXECUTION_STATE reaches the window.
OnCustomMessage ==
    /\ phase = "running"
    /\ inflight # <<>>
    /\ \E ok \in BOOLEAN :
          Handled(CustomMessage(Begin(App, "OnCustomMessage"), Head(inflight), ok),
                  ok)
    /\ inflight' = Tail(inflight)
    /\ UNCHANGED <<phase, mInitialized>>

\* AutoMode, one inspection: the verdict is reported when it has changed.
AutoModeTick ==
    /\ phase = "running"
    /\ started[Auto]
    /\ Len(inflight) < MaxInFlight
    /\ \E verdict \in BOOLEAN :
          /\ verdict # autoVerdict
          /\ autoVerdict' = verdict
          /\ inflight' = Append(inflight, verdict)
    /\ trace' = <<>>
    /\ UNCHANGED <<phase, mInitialized, mCaffeineMode, mCaffeineState,
                   mKeepDisplayOn, mSessionState, mSettings, started, timerArmed, os,
                   doubleStarts, strayStops, mismatched>>

\* TimerMode, the countdown expires: inactive is reported, once.
TimerModeExpire ==
    /\ phase = "running"
    /\ started[Timer]
    /\ timerArmed
    /\ Len(inflight) < MaxInFlight
    /\ timerArmed' = FALSE
    /\ inflight' = Append(inflight, FALSE)
    /\ trace' = <<>>
    /\ UNCHANGED <<phase, mInitialized, mCaffeineMode, mCaffeineState,
                   mKeepDisplayOn, mSessionState, mSettings, started, autoVerdict, os,
                   doubleStarts, strayStops, mismatched>>

\* ~CaffeineApp: DisableCaffeine().
Destructor ==
    /\ phase # "destroyed"
    /\ \E ok \in BOOLEAN :
          Handled(DisableCaffeine(Begin(App, "~CaffeineApp"), ok), ok)
    /\ phase' = "destroyed"
    /\ UNCHANGED <<mInitialized, inflight>>

Next ==
    \/ AppInit
    \/ OnClick
    \/ OnContextMenuSelect
    \/ ShowSettingsDialog
    \/ OnSystemMessage
    \/ OnCustomMessage
    \/ AutoModeTick
    \/ TimerModeExpire
    \/ Destructor

Spec == Init /\ [][Next]_vars

TypeOK ==
    /\ phase \in {"constructed", "running", "destroyed"}
    /\ mCaffeineMode \in CaffeineMode
    /\ mCaffeineState \in CaffeineState
    /\ mKeepDisplayOn \in BOOLEAN
    /\ mSessionState \in SessionState
    /\ mSettings \in Settings
    /\ mInitialized \in BOOLEAN
    /\ Len(inflight) <= MaxInFlight

(* ------------------------- reading the trace -------------------------- *)

Index(tr, ev) ==
    CHOOSE i \in 1..Len(tr) : tr[i].ev = ev

Count(tr, ev) ==
    Cardinality({i \in 1..Len(tr) : tr[i].ev = ev})

\* The handler made an OS call and the OS rejected it.
FailedCall(tr) ==
    \E i \in 1..Len(tr) : tr[i].ev = "os" /\ ~tr[i].ok

\* The program on a system where SetThreadExecutionState never fails.
NextOk ==
    \/ AppInit /\ ~FailedCall(trace')
    \/ OnClick /\ ~FailedCall(trace')
    \/ OnContextMenuSelect /\ ~FailedCall(trace')
    \/ ShowSettingsDialog /\ ~FailedCall(trace')
    \/ OnSystemMessage /\ ~FailedCall(trace')
    \/ OnCustomMessage /\ ~FailedCall(trace')
    \/ AutoModeTick /\ ~FailedCall(trace')
    \/ TimerModeExpire /\ ~FailedCall(trace')
    \/ Destructor /\ ~FailedCall(trace')

SpecOk == Init /\ [][NextOk]_vars

\* The OS holds the keep-awake request: the last call that succeeded asked
\* for ES_SYSTEM_REQUIRED.
OsHeld ==
    os.made /\ os.sys

Running ==
    {m \in CaffeineMode : started[m]}

(* ------------------------------ claims -------------------------------- *)

\* C1: in every reachable state, Active implies that the most recent
\* successful OS call requested system-required, and Inactive implies that
\* the most recent successful call released it or that none succeeded yet.
C1_StateMatchesLastSuccessfulCall ==
    /\ mCaffeineState = Active => OsHeld
    /\ mCaffeineState = Inactive => ~OsHeld

\* C2: a step whose OS call fails leaves mCaffeineState and mKeepDisplayOn
\* as they were before the step.
C2_FailedCallLeavesStateUnchanged ==
    [][FailedCall(trace') =>
          /\ mCaffeineState' = mCaffeineState
          /\ mKeepDisplayOn' = mKeepDisplayOn]_vars

\* C3: while the application runs, mKeepDisplayOn is true only if
\* mCaffeineState is Active.
C3_DisplayOnOnlyWhileActive ==
    phase = "running" /\ mKeepDisplayOn => mCaffeineState = Active

\* C4: after every handled stimulus, a locked session and an active mode
\* whose DisableOnLockScreen is set imply that mKeepDisplayOn is false.
C4_LockedSuppressesDisplayOn ==
    /\ phase = "running"
    /\ mSessionState = Locked
    /\ ModeDisableOnLock(mCaffeineMode, mSettings)
    => ~mKeepDisplayOn

\* C5: at every point, also inside a handler, at most one mode object is
\* started and it is the one of mCaffeineMode; no mode object is started
\* twice over; SetCaffeineMode calls Stop, then assigns mCaffeineMode, then
\* calls Start, once each.
C5_OnlyActiveModeStarted ==
    /\ Running \subseteq {mCaffeineMode}
    /\ Cardinality(Running) <= 1
    /\ mInitialized => started[mCaffeineMode]
    /\ ~mismatched
    /\ \A m \in CaffeineMode : doubleStarts[m] = 0
    /\ HasEvent(trace, "SetCaffeineMode") =>
          /\ Count(trace, "stop") = 1
          /\ Count(trace, "mode") = 1
          /\ Count(trace, "start") = 1
          /\ Index(trace, "stop") < Index(trace, "mode")
          /\ Index(trace, "mode") < Index(trace, "start")

\* C5 witness: the mode was switched three times and Timer alone is started.
C5_Witness ==
    /\ phase = "running"
    /\ mCaffeineMode = Timer
    /\ Running = {Timer}
    /\ HasEvent(trace, "SetCaffeineMode")

\* C6 as stated: from startup on no mode object receives Start while
\* started, and none receives Stop while not started.
C6_StrictAlternationFromStart ==
    \A m \in CaffeineMode : doubleStarts[m] = 0 /\ strayStops[m] = 0

\* C6 amended: no mode object receives Start while started; the only Stop
\* received by a mode object that is not started is the one Init's
\* SetCaffeineMode gives the Disabled mode object before its first Start.
C6_AlternationAfterInitialStop ==
    \A m \in CaffeineMode :
        /\ doubleStarts[m] = 0
        /\ strayStops[m] = IF m = Disabled /\ mInitialized THEN 1 ELSE 0

\* C6 witness: a full round of the modes after Init; Disabled was stopped
\* and started again and its one stray Stop is still the one of Init.
C6_Witness ==
    /\ phase = "running"
    /\ HasEvent(trace, "ToggleCaffeineMode")
    /\ mCaffeineMode = Disabled
    /\ strayStops[Disabled] = 1

\* The successor in the cycle Disabled, Enabled, Auto, Timer, Disabled.
Cycle == <<Disabled, Enabled, Auto, Timer>>

CycleSuccessor(mode) ==
    LET i == CHOOSE k \in 1..Len(Cycle) : Cycle[k] = mode
    IN  Cycle[(i % Len(Cycle)) + 1]

\* C7: every ToggleCaffeineMode moves mCaffeineMode to its successor in the
\* cycle Disabled, Enabled, Auto, Timer, Disabled, so four of them from
\* Disabled visit Enabled, Auto, Timer and end in Disabled.
C7_ToggleFollowsCycle ==
    [][HasEvent(trace', "ToggleCaffeineMode") =>
          mCaffeineMode' = CycleSuccessor(mCaffeineMode)]_vars

\* C7 witness: a toggle has just closed the cycle, from Timer to Disabled.
C7_Witness ==
    /\ HasEvent(trace, "ToggleCaffeineMode")
    /\ mCaffeineMode = Disabled
    /\ trace[1].ev = "OnClick"

\* C8: when SetCaffeineMode has returned, mKeepDisplayOn is the value
\* UpdateExecutionState derives from the new mode's settings and the session
\* state (false for Disabled).
C8_SetModeReevaluates ==
    phase = "running" /\ HasEvent(trace, "SetCaffeineMode") =>
        mKeepDisplayOn = LocalKeepDisplayOn(mCaffeineMode, mSessionState, mSettings)

\* C9: after the destructor, unless the OS rejected the destructor's own
\* call, mCaffeineState is Inactive and the OS does not hold the keep-awake
\* request.
C9_ShutdownReleases ==
    phase = "destroyed" /\ ~FailedCall(trace) =>
        mCaffeineState = Inactive /\ ~OsHeld

\* C10: when the OS call of a handler failed and the next handler wants the
\* same execution state and display flag, the next handler calls the OS.
C10_RetryAfterFailure ==
    [][(/\ FailedCall(trace)
        /\ HasEvent(trace', "reconcile")
        /\ trace'[Index(trace', "reconcile")].active
              = trace[Index(trace, "reconcile")].active
        /\ trace'[Index(trace', "reconcile")].display
              = trace[Index(trace, "reconcile")].display)
       => HasEvent(trace', "os")]_vars

(* --------------------------- further claims --------------------------- *)

\* The name of the handler that ran last ("" after a tick or before Init).
Handler(tr) ==
    IF tr = <<>> THEN "" ELSE tr[1].ev

\* The OS calls a handler made, as the flags they carried.
OsCalls(tr) ==
    {<<tr[i].active, tr[i].display>> : i \in {k \in 1..Len(tr) : tr[k].ev = "os"}}

StandardIs(keepDisplayOn, disableOnLock) ==
    mSettings.Standard = [KeepDisplayOn |-> keepDisplayOn,
                          DisableOnLockScreen |-> disableOnLock]

\* C11: a session lock event received in Enabled mode while Active with
\* mKeepDisplayOn true and Standard = {KeepDisplayOn, DisableOnLockScreen}
\* makes mKeepDisplayOn false, makes one OS call carrying system-required
\* without display-required, and leaves mCaffeineState Active.
C11_LockDropsDisplayOnly ==
    [][(/\ Handler(trace') = "WTS_SESSION_LOCK"
        /\ mCaffeineMode = Enabled
        /\ mCaffeineState = Active
        /\ mKeepDisplayOn
        /\ StandardIs(TRUE, TRUE))
       => /\ mKeepDisplayOn' = FALSE
          /\ mCaffeineState' = Active
          /\ mCaffeineMode' = Enabled
          /\ Count(trace', "os") = 1
          /\ OsCalls(trace') = {<<TRUE, FALSE>>}]_vars

\* C11 witness: the lock event has been handled in Enabled mode and its OS
\* call, the one that dropped display-required, was made.
C11_Witness ==
    /\ Handler(trace) = "WTS_SESSION_LOCK"
    /\ mCaffeineMode = Enabled
    /\ mCaffeineState = Active
    /\ ~mKeepDisplayOn
    /\ StandardIs(TRUE, TRUE)
    /\ OsCalls(trace) = {<<TRUE, FALSE>>}

\* C12: from Disabled and Inactive in an unlocked session with Standard =
\* {KeepDisplayOn, not DisableOnLockScreen}, SetCaffeineMode(Enabled) makes
\* exactly one OS call, with system-required and display-required; a session
\* lock event that follows it makes no OS call.
C12_EnableThenLock ==
    [][/\ (/\ mCaffeineMode = Disabled
           /\ mCaffeineState = Inactive
           /\ mSessionState = Unlocked
           /\ StandardIs(TRUE, FALSE)
           /\ HasEvent(trace', "SetCaffeineMode")
           /\ mCaffeineMode' = Enabled)
          => /\ Count(trace', "os") = 1
             /\ OsCalls(trace') = {<<TRUE, TRUE>>}
       /\ (/\ HasEvent(trace, "SetCaffeineMode")
           /\ OsCalls(trace) = {<<TRUE, TRUE>>}
           /\ mCaffeineMode = Enabled
           /\ mSessionState = Unlocked
           /\ StandardIs(TRUE, FALSE)
           /\ Handler(trace') = "WTS_SESSION_LOCK")
          => /\ Count(trace', "os") = 0
             /\ mKeepDisplayOn'
             /\ mCaffeineState' = Active]_vars

\* C12 witness: Enabled was entered with the one call (true, true) and the
\* lock event that followed was handled without an OS call.
C12_Witness ==
    /\ Handler(trace) = "WTS_SESSION_LOCK"
    /\ Count(trace, "os") = 0
    /\ mCaffeineMode = Enabled
    /\ mCaffeineState = Active
    /\ mKeepDisplayOn
    /\ mSessionState = Locked
    /\ StandardIs(TRUE, FALSE)
    /\ os = [made |-> TRUE, sys |-> TRUE, disp |-> TRUE]

\* C13: when SetCaffeineMode(Enabled) has just run and runs again with the
\* settings and the session state unchanged, the second run calls Stop and
\* Start on the Enabled mode object once each, in that order and regularly,
\* makes no OS call and leaves mCaffeineState and mKeepDisplayOn unchanged.
C13_RepeatedEnableIsQuiet ==
    [][(/\ HasEvent(trace, "SetCaffeineMode")
        /\ mCaffeineMode = Enabled
        /\ HasEvent(trace', "SetCaffeineMode")
        /\ mCaffeineMode' = Enabled)
       => /\ Count(trace', "stop") = 1
          /\ Count(trace', "start") = 1
          /\ Index(trace', "stop") < Index(trace', "start")
          /\ started[Enabled] /\ started'[Enabled]
          /\ doubleStarts' = doubleStarts
          /\ strayStops' = strayStops
          /\ Count(trace', "os") = 0
          /\ mCaffeineState' = mCaffeineState
          /\ mKeepDisplayOn' = mKeepDisplayOn
          /\ os' = os]_vars

\* C13 witness: Enabled was selected from the menu while Enabled and Active,
\* the mode object was restarted and no OS call was made.
C13_Witness ==
    /\ Handler(trace) = "OnContextMenuSelect"
    /\ HasEvent(trace, "SetCaffeineMode")
    /\ Count(trace, "stop") = 1
    /\ Count(trace, "start") = 1
    /\ Count(trace, "os") = 0
    /\ mCaffeineMode = Enabled
    /\ mCaffeineState = Active
    /\ started[Enabled]
    /\ OsHeld

\* C14: a session lock or unlock event leaves mCaffeineMode and the mode
\* objects alone (no Start, no Stop, no mode assignment); it sets
\* mSessionState and runs UpdateExecutionState once, with the current
\* mCaffeineState as the state asked for.
C14_SessionEventOnlyRefreshes ==
    [][Handler(trace') \in {"WTS_SESSION_LOCK", "WTS_SESSION_UNLOCK"}
       => /\ mCaffeineMode' = mCaffeineMode
          /\ started' = started
          /\ autoVerdict' = autoVerdict
          /\ timerArmed' = timerArmed
          /\ inflight' = inflight
          /\ mSettings' = mSettings
          /\ Count(trace', "start") = 0
          /\ Count(trace', "stop") = 0
          /\ Count(trace', "mode") = 0
          /\ mSessionState' = (IF Handler(trace') = "WTS_SESSION_LOCK"
                               THEN Locked ELSE Unlocked)
          /\ Count(trace', "reconcile") = 1
          /\ trace'[Index(trace', "reconcile")].active
                = (mCaffeineState = Active)
          /\ mCaffeineState' = mCaffeineState]_vars

\* C14 witness: a lock event was handled while the Timer mode object was
\* started with its countdown pending, and changed the display flag.
C14_Witness ==
    /\ Handler(trace) = "WTS_SESSION_LOCK"
    /\ mCaffeineMode = Timer
    /\ started[Timer]
    /\ timerArmed
    /\ mSessionState = Locked
    /\ Count(trace, "os") = 1

\* C15: when UpdateExecutionState has run while mCaffeineMode is Disabled,
\* whatever state it was asked for and whatever was recorded before,
\* mCaffeineState is Inactive and mKeepDisplayOn is false.
C15_DisabledReconcilesToInactive ==
    HasEvent(trace, "reconcile") /\ mCaffeineMode = Disabled
    => mCaffeineState = Inactive /\ ~mKeepDisplayOn

\* C16: a policy report delivered while mCaffeineMode is Disabled, which
\* can only come from a mode object stopped since it posted the report,
\* changes neither mCaffeineState nor mKeepDisplayOn and causes no OS call.
C16_StaleReportDropped ==
    [][Handler(trace') = "OnCustomMessage" /\ mCaffeineMode = Disabled
       => /\ mCaffeineState' = mCaffeineState
          /\ mKeepDisplayOn' = mKeepDisplayOn
          /\ Count(trace', "os") = 0]_vars

\* C17: when UpdateExecutionState runs and the pair it wants (the state
\* asked for, the local keepDisplayOn) is the recorded pair, it makes no OS
\* call, changes nothing it records and refreshes no icon or tip (the one
\* refresh of a SetCaffeineMode that called it is SetCaffeineMode's own).
C17_NoChangeNoCall ==
    [][(/\ HasEvent(trace', "reconcile")
        /\ trace'[Index(trace', "reconcile")].active = (mCaffeineState = Active)
        /\ trace'[Index(trace', "reconcile")].display = mKeepDisplayOn)
       => /\ Count(trace', "os") = 0
          /\ mCaffeineState' = mCaffeineState
          /\ mKeepDisplayOn' = mKeepDisplayOn
          /\ os' = os
          /\ Count(trace', "ui")
                = (IF HasEvent(trace', "SetCaffeineMode") THEN 1 ELSE 0)]_vars

\* C17 witness: an unlock event was handled in Disabled mode and found
\* nothing to do.
C17_Witness ==
    /\ Handler(trace) = "WTS_SESSION_UNLOCK"
    /\ mCaffeineMode = Disabled
    /\ mCaffeineState = Inactive
    /\ ~mKeepDisplayOn
    /\ Count(trace, "reconcile") = 1
    /\ Count(trace, "os") = 0
    /\ Count(trace, "ui") = 0
    /\ OsHeld = FALSE /\ os.made

\* The OS calls of a handler in the order they were made, as indices of tr.
OsIndices(tr) == {k \in 1..Len(tr) : tr[k].ev = "os"}

\* The flags of the OS call before the i-th event of tr: those of the
\* previous call of the handler, else those the OS holds from before.
FlagsBefore(tr, i, held) ==
    LET before == {j \in OsIndices(tr) : j < i}
    IN  IF before = {}
        THEN held
        ELSE LET j == CHOOSE k \in before : \A l \in before : l <= k
             IN  [made |-> TRUE, sys |-> tr[j].active, disp |-> tr[j].display]

\* C18: with every OS call succeeding, no OS call carries the same
\* (system-required, display-required) flags as the OS call before it.
C18_CallsOnlyOnChange ==
    [][\A i \in OsIndices(trace') :
          LET prev == FlagsBefore(trace', i, os)
          IN  prev.made =>
                 <<trace'[i].active, trace'[i].display>> # <<prev.sys, prev.disp>>]_vars

\* C19 as stated: accepting the settings dialog neither alters
\* mKeepDisplayOn nor triggers an OS call.
C19_SettingsReadAtModeStart ==
    [][Handler(trace') = "ShowSettingsDialog"
       => mKeepDisplayOn' = mKeepDisplayOn /\ Count(trace', "os") = 0]_vars

\* C19 amended: the settings are read each time UpdateExecutionState runs.
\* Accepting the settings dialog replaces the Standard and Auto settings
\* (never the Timer ones), stops and starts no mode, leaves the mode and
\* mCaffeineState alone and reconciles at once: in a mode other than Disabled
\* mKeepDisplayOn becomes the lock-adjusted KeepDisplayOn of the new settings,
\* with exactly one OS call if that changed it and none otherwise; in
\* Disabled mode nothing recorded changes and no OS call is made.
C19_SettingsAppliedAtOnce ==
    [][Handler(trace') = "ShowSettingsDialog"
       => LET keep == ModeKeepDisplayOn(mCaffeineMode, mSettings')
              drop == mSessionState = Locked
                         /\ ModeDisableOnLock(mCaffeineMode, mSettings')
          IN  /\ mSettings'.Timer = mSettings.Timer
              /\ mCaffeineMode' = mCaffeineMode
              /\ mCaffeineState' = mCaffeineState
              /\ started' = started
              /\ Count(trace', "stop") = 0 /\ Count(trace', "start") = 0
              /\ Count(trace', "reconcile") = 1
              /\ mKeepDisplayOn' = (IF mCaffeineMode = Disabled
                                      THEN mKeepDisplayOn
                                      ELSE keep /\ ~drop)
              /\ Count(trace', "os")
                    = (IF mKeepDisplayOn' # mKeepDisplayOn THEN 1 ELSE 0)]_vars

\* C19 witness: in Enabled mode, Active and unlocked, the dialog was accepted
\* with KeepDisplayOn switched on, and the OS was asked for the display.
C19_Witness ==
    /\ Handler(trace) = "ShowSettingsDialog"
    /\ mCaffeineMode = Enabled
    /\ mCaffeineState = Active
    /\ mSessionState = Unlocked
    /\ mSettings.Standard.KeepDisplayOn
    /\ mKeepDisplayOn
    /\ \E i \in OsIndices(trace) :
          trace[i].active /\ trace[i].display /\ trace[i].ok
    /\ os = [made |-> TRUE, sys |-> TRUE, disp |-> TRUE]

\* C20: every OS call of the handler that ran last asks for display-required
\* only together with system-required; the last one asks for system-required
\* exactly when mCaffeineState is Active, so with Inactive recorded it
\* carried neither flag, whatever mKeepDisplayOn is; and the flags the OS
\* holds never have display-required without system-required.
C20_DisplayOnlyWithSystem ==
    /\ \A i \in OsIndices(trace) : trace[i].display => trace[i].active
    /\ OsIndices(trace) # {}
          => LET last == CHOOSE k \in OsIndices(trace) :
                            \A l \in OsIndices(trace) : l <= k
             IN  /\ trace[last].active = (mCaffeineState = Active)
                 /\ mCaffeineState = Inactive
                       => ~trace[last].active /\ ~trace[last].display
    /\ os.disp => os.sys

\* C20 witness: an OS call was made with Inactive and mKeepDisplayOn true
\* recorded, and carried neither flag.
C20_Witness ==
    /\ mCaffeineState = Inactive
    /\ mKeepDisplayOn
    /\ \E i \in OsIndices(trace) :
          ~trace[i].active /\ ~trace[i].display /\ trace[i].ok
    /\ os = [made |-> TRUE, sys |-> FALSE, disp |-> FALSE]

\* C21: lock followed at once by unlock is a round trip.  When the handler
\* that ran last was a lock event met in a mode other than Disabled, Active,
\* with KeepDisplayOn and DisableOnLockScreen both set for the mode, and the
\* next handler is the unlock event, every OS call of both succeeding, then
\* the unlock sets mKeepDisplayOn to true and makes exactly one OS call,
\* with system-required and display-required, and mCaffeineState is Active
\* and mCaffeineMode the same mode as before the lock.
C21_LockUnlockRoundTrip ==
    [][(/\ Handler(trace) = "WTS_SESSION_LOCK"
        /\ ~FailedCall(trace)
        /\ trace[Index(trace, "reconcile")].active
        /\ mCaffeineMode # Disabled
        /\ ModeKeepDisplayOn(mCaffeineMode, mSettings)
        /\ ModeDisableOnLock(mCaffeineMode, mSettings)
        /\ Handler(trace') = "WTS_SESSION_UNLOCK"
        /\ ~FailedCall(trace'))
       => /\ ~mKeepDisplayOn /\ mKeepDisplayOn'
          /\ Count(trace', "os") = 1
          /\ OsCalls(trace') = {<<TRUE, TRUE>>}
          /\ os' = [made |-> TRUE, sys |-> TRUE, disp |-> TRUE]
          /\ ~HasEvent(trace, "mode") /\ ~HasEvent(trace', "mode")
          /\ mCaffeineMode' = mCaffeineMode
          /\ mCaffeineState = Active /\ mCaffeineState' = Active
          /\ started' = started
          /\ mSessionState' = Unlocked]_vars

\* C21 witness: in Auto mode with both settings on, Active, the unlock event
\* was handled and the OS was asked for system and display again.
C21_Witness ==
    /\ Handler(trace) = "WTS_SESSION_UNLOCK"
    /\ mCaffeineMode = Auto
    /\ mSettings.Auto = [KeepDisplayOn |-> TRUE, DisableOnLockScreen |-> TRUE]
    /\ mCaffeineState = Active
    /\ mSessionState = Unlocked
    /\ mKeepDisplayOn
    /\ Count(trace, "os") = 1
    /\ OsCalls(trace) = {<<TRUE, TRUE>>}
    /\ ~FailedCall(trace)
    /\ os = [made |-> TRUE, sys |-> TRUE, disp |-> TRUE]

====
